---- MODULE Spec2Model ----
(***************************************************************************)
(* Model of the research stage of wal-fact-checker:                        *)
(*   - the before-tool callbacks of a research worker (query               *)
(*     deduplication by embedding similarity, per-tool call limits),       *)
(*     single_question_research_agent.py;                                  *)
(*   - the ResearchOrchestratorAgent fan-out / fan-in over the gap         *)
(*     questions, research_orchestrator_agent.py;                          *)
(*   - the sequence of stages of fact_check_orchestrator.py;               *)
(*   - transform_adjudicated_report, report_transformation_agent.py.       *)
(***************************************************************************)
EXTENDS Integers, Sequences, FiniteSets, TLC

VARIABLES
    cache,      \* callback_cache of each worker: call counters, query embeddings
    pending,    \* search calls whose deduplication check awaits the embedding
    aborted,    \* workers whose before-tool callback raised
    log,        \* history: every tool-call attempt the callbacks have decided
    nAttempts,  \* number of tool-call attempts begun so far
    state,      \* ctx.session.state, the session state all agents share
    phase,      \* position of ResearchOrchestratorAgent._run_async_impl
    branches,   \* the ResearchBranch_i agents the orchestrator has built
    parallel,   \* sub_agents of the ParallelAgent, as indices into branches
    bpc,        \* next sub-agent of each branch
    agent_question, \* the question each research agent has read
    produced,   \* history: the answer each research agent produced
    started,    \* history: how many times each research agent was started
    events,     \* events the orchestrator has yielded
    agg_index,  \* history: question index of each entry of the aggregate
    stage,      \* position of fact_check_orchestrator in its sub-agents
    finished,   \* history: the agents of the pipeline that have finished
    report,     \* the adjudicated report handed to transform_adjudicated_report
    transformed, \* what transform_adjudicated_report did with it
    alog,       \* history: every after-tool callback run of the workers
    composition, \* a list of after-tool callbacks, a response, their composition
    chunker,    \* one call of chunk_text: arguments, loop position, chunks
    url_to_query_mapping \* cache["url_to_query_mapping"] of each worker's cache

wvars == <<cache, pending, aborted, log, nAttempts>>

ovars == <<state, phase, branches, parallel, bpc, agent_question, produced,
           started, events, agg_index>>

\* position in the pipeline
pvars == <<stage, finished>>

\* report transformation
tvars == <<report, transformed>>

\* after-tool callbacks
avars == <<alog, composition, chunker, url_to_query_mapping>>

vars == <<cache, pending, aborted, log, nAttempts, state, phase, branches,
          parallel, bpc, agent_question, produced, started, events, agg_index,
          stage, finished, report, transformed, alog, composition, chunker,
          url_to_query_mapping>>

----------------------------------------------------------------------------
(* Bounds of the model *)

MaxAttempts == 3
MaxPending == 2
MaxQuestions == 3
\* longest list the LLM of gap identification leaves under gap_questions
MaxListed == 17
\* longest list of references of an adjudicated report
MaxReferences == 2
\* longest list of callbacks handed to compose_after_tool_callbacks
MaxCallbacks == 2
\* after-tool callback runs of one execution
MaxAfterCalls == 2
\* longest text handed to chunk_text step by step
MaxTextLen == 3
\* iterations of the chunk_text loop that are followed
MaxIterations == 5

----------------------------------------------------------------------------
(* Program constants *)

MAX_NUMBER_OF_SEARCH_TOOL_CALLS == 2
MAX_NUMBER_OF_SCRAPE_TOOL_CALLS == 1
\* 0.85, in hundredths
COSINE_SIMILARITY_THRESHOLD == 85
\* gap_identification_agent.py: the maximum of questions the prompt asks for
MAX_GAP_QUESTIONS == 15

ToolNames == {"search_tool", "scrape_tool"}

\* tool_max_calls.get(tool_name, 0)
tool_max_calls(tool_name) ==
    CASE tool_name = "search_tool" -> MAX_NUMBER_OF_SEARCH_TOOL_CALLS
      [] tool_name = "scrape_tool" -> MAX_NUMBER_OF_SCRAPE_TOOL_CALLS
      [] OTHER -> 0

\* The research workers; each one is built by its own call of the factory and
\* so owns one callback_cache. The agent name of a worker is the worker itself.
Workers == {"w1", "w2"}

----------------------------------------------------------------------------
(* Queries and embeddings.  The embedding provider is a remote call; here a  *)
(* query has a fixed two-dimensional integer embedding.  "" is the empty or   *)
(* missing query.                                                            *)

Queries == {"qa", "qb", "qc"}
EmptyQuery == ""

TrueEmbedding(q) ==
    CASE q = "qa" -> <<1, 0>>
      [] q = "qb" -> <<2, 1>>
      [] q = "qc" -> <<1, 1>>

\* EmbeddingService.generate_embeddings falls back to zero vectors on failure
ZeroVector == <<0, 0>>
\* no embedding was stored for the call
NoEmbedding == <<>>

\* What the remote embedding call and the comparison can do:
\*   "ok"       the provider answers with the embedding of the query
\*   "fallback" the provider fails, generate_embeddings returns a zero vector
\*   "raise"    an exception is raised inside the try block of the check
EmbeddingOutcomes == {"ok", "fallback", "raise"}

Dot(a, b) == a[1] * b[1] + a[2] * b[2]

\* sklearn cosine_similarity(a, b) >= threshold/100, in integer arithmetic;
\* a zero vector is normalised to itself, so its similarity to anything is 0.
cosine_similarity_ge(a, b, threshold) ==
    LET d == Dot(a, b)
        na == Dot(a, a)
        nb == Dot(b, b)
    IN  /\ na > 0
        /\ nb > 0
        /\ d > 0
        /\ 10000 * d * d >= threshold * threshold * na * nb

----------------------------------------------------------------------------
(* Results of a before-tool callback *)

NoResult == [status |-> "none", message |-> <<>>]
DuplicateError ==
    [status |-> "error", message |-> <<"Query is too similar to a previous query">>]
LimitError(tool_name) ==
    [status |-> "error", message |-> <<tool_name, " call limit reached">>]

----------------------------------------------------------------------------
(* enforce_query_deduplication, from the point where the embedding call has  *)
(* returned.  c is the callback_cache; the result carries the new cache, the  *)
(* value returned, whether a similar previous query was found, the embedding  *)
(* stored for the call and whether an exception left the callback.           *)

\* the inner loop stopping one short of the last previous embedding
is_duplicate_skip_last(previous_embeddings, embedding) ==
    \E j \in 1..(Len(previous_embeddings) - 1) :
        cosine_similarity_ge(embedding, previous_embeddings[j],
                             COSINE_SIMILARITY_THRESHOLD)

is_duplicate(previous_embeddings, embedding) ==
    \E j \in 1..Len(previous_embeddings) :
        cosine_similarity_ge(embedding, previous_embeddings[j],
                             COSINE_SIMILARITY_THRESHOLD)

\* the embedding of a query found to be a duplicate is not recorded
compare_and_record_skip_rejected(c, embedding, previous_embeddings) ==
    IF previous_embeddings = <<>>
    THEN [cache |-> [c EXCEPT !.embeddings = <<embedding>>],
          out |-> NoResult, dup |-> FALSE,
          emb |-> embedding, raised |-> FALSE]
    ELSE LET dupl == is_duplicate(previous_embeddings, embedding)
         IN  [cache |-> IF dupl THEN c
                        ELSE [c EXCEPT !.embeddings =
                                  Append(previous_embeddings, embedding)],
              out |-> IF dupl THEN DuplicateError ELSE NoResult,
              dup |-> dupl,
              emb |-> IF dupl THEN NoEmbedding ELSE embedding,
              raised |-> FALSE]

\* lines 60-99: compare with the previous embeddings, record the embedding
compare_and_record(c, embedding, previous_embeddings) ==
    IF previous_embeddings = <<>>
    THEN [cache |-> [c EXCEPT !.embeddings = <<embedding>>],
          out |-> NoResult, dup |-> FALSE,
          emb |-> embedding, raised |-> FALSE]
    ELSE LET dupl == is_duplicate(previous_embeddings, embedding)
         IN  [cache |-> [c EXCEPT !.embeddings =
                              Append(previous_embeddings, embedding)],
              out |-> IF dupl THEN DuplicateError ELSE NoResult,
              dup |-> dupl,
              emb |-> embedding, raised |-> FALSE]

\* the check without its except clause: the exception leaves the callback
enforce_query_deduplication_no_except(c, tool_name, query, outcome) ==
    IF tool_name # "search_tool" \/ query = EmptyQuery
    THEN [cache |-> c, out |-> NoResult, dup |-> FALSE,
          emb |-> NoEmbedding, raised |-> FALSE]
    ELSE IF outcome = "raise"
    THEN [cache |-> c, out |-> NoResult, dup |-> FALSE,
          emb |-> NoEmbedding, raised |-> TRUE]
    ELSE compare_and_record(c,
            IF outcome = "ok" THEN TrueEmbedding(query) ELSE ZeroVector,
            c.embeddings)

\* the embedding recorded before the comparison that raises
enforce_query_deduplication_record_first(c, tool_name, query, outcome) ==
    IF tool_name # "search_tool" \/ query = EmptyQuery
    THEN [cache |-> c, out |-> NoResult, dup |-> FALSE,
          emb |-> NoEmbedding, raised |-> FALSE]
    ELSE IF outcome = "raise"
    THEN [cache |-> [c EXCEPT !.embeddings = Append(@, TrueEmbedding(query))],
          out |-> NoResult, dup |-> FALSE,
          emb |-> NoEmbedding, raised |-> FALSE]
    ELSE compare_and_record(c,
            IF outcome = "ok" THEN TrueEmbedding(query) ELSE ZeroVector,
            c.embeddings)

\* the check without its test for an empty query: the empty query is embedded
\* as the zero vector
enforce_query_deduplication_any_query(c, tool_name, query, outcome) ==
    IF tool_name # "search_tool"
    THEN [cache |-> c, out |-> NoResult, dup |-> FALSE,
          emb |-> NoEmbedding, raised |-> FALSE]
    ELSE IF outcome = "raise"
    THEN [cache |-> c, out |-> NoResult, dup |-> FALSE,
          emb |-> NoEmbedding, raised |-> FALSE]
    ELSE compare_and_record(c,
            IF outcome = "ok" /\ query # EmptyQuery
            THEN TrueEmbedding(query) ELSE ZeroVector,
            c.embeddings)

enforce_query_deduplication(c, tool_name, query, outcome) ==
    IF tool_name # "search_tool" \/ query = EmptyQuery
    THEN [cache |-> c, out |-> NoResult, dup |-> FALSE,
          emb |-> NoEmbedding, raised |-> FALSE]
    ELSE IF outcome = "raise"
    THEN [cache |-> c, out |-> NoResult, dup |-> FALSE,
          emb |-> NoEmbedding, raised |-> FALSE]
    ELSE compare_and_record(c,
            IF outcome = "ok" THEN TrueEmbedding(query) ELSE ZeroVector,
            c.embeddings)

\* the limit test written with > in place of >=
enforce_tool_call_limits_gt(c, agent_name, tool_name) ==
    LET key == <<agent_name, tool_name>>
        number_of_calls == c.calls[key]
        max_number_of_calls == tool_max_calls(tool_name)
    IN  IF number_of_calls > max_number_of_calls
        THEN [cache |-> c, out |-> LimitError(tool_name)]
        ELSE [cache |-> [c EXCEPT !.calls[key] = number_of_calls + 1],
              out |-> NoResult]

\* the counter moved before the test, so by a blocked call as well
enforce_tool_call_limits_count_blocked(c, agent_name, tool_name) ==
    LET key == <<agent_name, tool_name>>
        number_of_calls == c.calls[key]
        max_number_of_calls == tool_max_calls(tool_name)
        counted == [c EXCEPT !.calls[key] = number_of_calls + 1]
    IN  IF number_of_calls >= max_number_of_calls
        THEN [cache |-> counted, out |-> LimitError(tool_name)]
        ELSE [cache |-> counted, out |-> NoResult]

(* enforce_tool_call_limits *)
enforce_tool_call_limits(c, agent_name, tool_name) ==
    LET key == <<agent_name, tool_name>>
        number_of_calls == c.calls[key]
        max_number_of_calls == tool_max_calls(tool_name)
    IN  IF number_of_calls >= max_number_of_calls
        THEN [cache |-> c, out |-> LimitError(tool_name)]
        ELSE [cache |-> [c EXCEPT !.calls[key] = number_of_calls + 1],
              out |-> NoResult]

\* the two callbacks composed in the other order: limit first
combined_before_tool_callback_limit_first(c, agent_name, tool_name, query, outcome) ==
    LET l == enforce_tool_call_limits(c, agent_name, tool_name)
    IN  IF l.out # NoResult
        THEN [cache |-> c, out |-> l.out, dup |-> FALSE,
              emb |-> NoEmbedding, raised |-> FALSE]
        ELSE enforce_query_deduplication(l.cache, tool_name, query, outcome)

(* compose_before_tool_callbacks([dedup_callback, limit_callback]).combined *)
combined_before_tool_callback(c, agent_name, tool_name, query, outcome) ==
    LET d == enforce_query_deduplication(c, tool_name, query, outcome)
    IN  IF d.raised \/ d.out # NoResult
        THEN d
        ELSE LET l == enforce_tool_call_limits(d.cache, agent_name, tool_name)
             IN  [d EXCEPT !.cache = l.cache, !.out = l.out]

----------------------------------------------------------------------------
(* State of the workers *)

EmptyCache ==
    [calls |-> [k \in Workers \X ToolNames |-> 0], embeddings |-> <<>>]

InitWorkers ==
    /\ cache = [w \in Workers |-> EmptyCache]
    /\ pending = [w \in Workers |-> [q \in Queries |-> 0]]
    /\ aborted = [w \in Workers |-> FALSE]
    /\ log = <<>>
    /\ nAttempts = 0

\* one dictionary created once and closed over by the callbacks of all workers
callback_cache_of_shared(w) == "w1"

\* create_single_question_research_agent: callback_cache = {} is created by
\* each call of the factory, and the callbacks of the agent built by that call
\* close over it; the cache the callbacks of worker w use is the one of w.
callback_cache_of(w) == w

RECURSIVE SumOver(_, _)
SumOver(f, S) ==
    IF S = {} THEN 0
    ELSE LET x == CHOOSE y \in S : TRUE IN f[x] + SumOver(f, S \ {x})

NumPending == SumOver([w \in Workers |-> SumOver(pending[w], Queries)], Workers)

\* The callbacks decide one attempt: the cache is updated, the attempt is
\* logged with the value returned; the tool executes iff that value is None.
Decide(w, tool_name, query, outcome) ==
    LET c == callback_cache_of(w)
        r == combined_before_tool_callback(cache[c], w, tool_name, query, outcome)
    IN  /\ cache' = [cache EXCEPT ![c] = r.cache]
        /\ aborted' = [aborted EXCEPT ![w] = r.raised]
        /\ log' = Append(log,
                    [w |-> w, tool |-> tool_name, query |-> query,
                     atMax |-> cache[c].calls[<<w, tool_name>>]
                                   >= tool_max_calls(tool_name),
                     dup |-> r.dup, emb |-> r.emb, out |-> r.out,
                     executed |-> (~r.raised /\ r.out = NoResult)])

\* The LLM of worker w asks for search_tool with a non-empty query: the
\* deduplication check starts and awaits the embedding of the query.
BeginSearch(w, q) ==
    /\ ~aborted[w]
    /\ nAttempts < MaxAttempts
    /\ NumPending < MaxPending
    /\ pending' = [pending EXCEPT ![w][q] = @ + 1]
    /\ nAttempts' = nAttempts + 1
    /\ UNCHANGED <<cache, aborted, log>>
    /\ UNCHANGED ovars
    /\ UNCHANGED <<pvars, tvars, avars>>

\* The embedding call of a pending search returns; the rest of the
\* deduplication check and the limit check run without suspending.
EmbeddingReturns(w, q) ==
    /\ pending[w][q] > 0
    /\ pending' = [pending EXCEPT ![w][q] = @ - 1]
    /\ \E outcome \in EmbeddingOutcomes : Decide(w, "search_tool", q, outcome)
    /\ UNCHANGED nAttempts
    /\ UNCHANGED ovars
    /\ UNCHANGED <<pvars, tvars, avars>>

\* A search with an empty or missing query: no embedding is requested.
SearchEmptyQuery(w) ==
    /\ ~aborted[w]
    /\ nAttempts < MaxAttempts
    /\ nAttempts' = nAttempts + 1
    /\ Decide(w, "search_tool", EmptyQuery, "ok")
    /\ UNCHANGED pending
    /\ UNCHANGED ovars
    /\ UNCHANGED <<pvars, tvars, avars>>

\* A scrape call: the deduplication check does not apply.
Scrape(w) ==
    /\ ~aborted[w]
    /\ nAttempts < MaxAttempts
    /\ nAttempts' = nAttempts + 1
    /\ Decide(w, "scrape_tool", EmptyQuery, "ok")
    /\ UNCHANGED pending
    /\ UNCHANGED ovars
    /\ UNCHANGED <<pvars, tvars, avars>>

----------------------------------------------------------------------------
(* The session state.  A key of the state is absent, holds None, or holds a  *)
(* value.                                                                    *)

Absent == <<"absent">>
PyNone == <<"none">>
Val(v) == <<"val", v>>

\* an empty dict
EmptyDict == <<"val", <<>>>>

\* x or None
OrNone(x) == IF x \in {PyNone, EmptyDict} THEN PyNone ELSE x

\* dict.get(key): None for an absent key
Get(entry) == IF entry = Absent THEN PyNone ELSE entry

\* state.get("research_answer_i")
GetAnswerKey(st, i) ==
    IF i \in DOMAIN st.research_answer_i THEN st.research_answer_i[i] ELSE PyNone

(* Question texts are sequences of characters. *)
IsSpace(ch) == ch = " "

RECURSIVE lstrip(_)
lstrip(text) ==
    IF text # <<>> /\ IsSpace(Head(text)) THEN lstrip(Tail(text)) ELSE text

RECURSIVE rstrip(_)
rstrip(text) ==
    IF text # <<>> /\ IsSpace(text[Len(text)])
    THEN rstrip(SubSeq(text, 1, Len(text) - 1))
    ELSE text

\* str.strip()
strip(text) == rstrip(lstrip(text))

(* The gap questions the gap identification stage can leave in the state:   *)
(* GapQuestionOutput records with id, question and priority.                *)
QuestionText(k) ==
    CASE k = 1 -> <<" ", "a">>
      [] k = 2 -> <<"b">>
      [] k = 3 -> <<"c", " ">>
      [] k = 4 -> <<"d">>
      [] OTHER -> <<"e">>

QuestionPriority(k) ==
    CASE k = 1 -> "low"
      [] k = 2 -> "high"
      [] k = 3 -> "medium"
      [] k = 4 -> "high"
      [] OTHER -> "low"

GapQuestion(k) ==
    [id |-> k, question |-> QuestionText(k), priority |-> QuestionPriority(k)]

QuestionIds == 1..MaxQuestions

\* lists of distinct gap questions: the first n questions, in ascending and
\* in descending order of id (so in two different orders of priority)
GapQuestionLists ==
    UNION {{[i \in 1..n |-> GapQuestion(i)],
            [i \in 1..n |-> GapQuestion(n + 1 - i)]} : n \in 0..MaxQuestions}

\* lists of up to MaxListed gap questions, the questions repeating in a cycle:
\* the output schema puts no bound on the length of the list, and the LLM
\* need not keep to the maximum its prompt asks for
LongGapQuestionLists ==
    {[i \in 1..n |-> GapQuestion(((i + r) % MaxQuestions) + 1)] :
        n \in 0..MaxListed, r \in 0..(MaxQuestions - 1)}

InitOrchestrator ==
    /\ phase = "start"
    /\ branches = <<>>
    /\ parallel = <<>>
    /\ bpc = <<>>
    /\ agent_question = <<>>
    /\ produced = <<>>
    /\ started = <<>>
    /\ events = [count |-> 0, escalate |-> FALSE]
    /\ agg_index = <<>>

\* a fresh session holding what gap identification left under gap_questions
SessionWith(gq) ==
    /\ state = [gap_questions |-> gq,
                current_question |-> Absent,
                research_answer |-> Absent,
                research_answer_i |-> <<>>,
                comprehensive_answer_set |-> Absent]
    /\ InitOrchestrator

----------------------------------------------------------------------------
(* fact_check_orchestrator: a SequentialAgent over three stages, two of them *)
(* SequentialAgents themselves; a SequentialAgent runs its sub-agents one     *)
(* after the other, each to its end.                                          *)

analysis_stage == <<"ClaimStructuringAgent", "GapIdentificationAgent">>
research_stage == <<"ResearchOrchestratorAgent">>
synthesis_stage == <<"EvidenceSynthesizerAgent", "AdversarialCritiqueAgent">>

\* the agents in the order in which the nested SequentialAgents run them
fact_check_orchestrator == analysis_stage \o research_stage \o synthesis_stage

\* the agent the pipeline is running
Running(agent) ==
    /\ stage \in 1..Len(fact_check_orchestrator)
    /\ fact_check_orchestrator[stage] = agent

\* the pipeline has reached the research stage
AtResearchStage ==
    /\ stage = Len(analysis_stage) + 1
    /\ finished = analysis_stage

----------------------------------------------------------------------------
\* lines 147-157: the questions read from the state
questions ==
    LET gap_questions_output_dict == OrNone(Get(state.gap_questions))
    IN  IF gap_questions_output_dict = PyNone
        THEN <<>>
        ELSE [i \in 1..Len(gap_questions_output_dict[2]) |->
                  gap_questions_output_dict[2][i].question]

NumQuestions == Len(questions)

\* the run given up without an answer set and without an event
NoQuestions_silent ==
    /\ Running("ResearchOrchestratorAgent")
    /\ phase = "start"
    /\ questions = <<>>
    /\ phase' = "escalated"
    /\ UNCHANGED <<state, events, branches, parallel, bpc, agent_question,
                   produced, started, agg_index>>
    /\ UNCHANGED wvars
    /\ UNCHANGED <<pvars, tvars, avars>>

\* lines 165-171: no questions; an empty answer set, one escalating event
NoQuestions ==
    /\ Running("ResearchOrchestratorAgent")
    /\ phase = "start"
    /\ questions = <<>>
    /\ state' = [state EXCEPT !.comprehensive_answer_set = Val([answers |-> <<>>])]
    /\ events' = [count |-> events.count + 1, escalate |-> TRUE]
    /\ phase' = "escalated"
    /\ UNCHANGED <<branches, parallel, bpc, agent_question, produced, started,
                   agg_index>>
    /\ UNCHANGED wvars
    /\ UNCHANGED <<pvars, tvars, avars>>

\* only a first batch of two branches handed to the ParallelAgent
CreateBranches_batched ==
    /\ Running("ResearchOrchestratorAgent")
    /\ phase = "start"
    /\ questions # <<>>
    /\ branches' = [i \in 1..NumQuestions |->
                       [question |-> strip(questions[i]),
                        target_key |-> i]]
    /\ parallel' = [i \in 1..(IF NumQuestions < 2 THEN NumQuestions ELSE 2) |-> i]
    /\ bpc' = [i \in 1..NumQuestions |-> "set_question"]
    /\ agent_question' = [i \in 1..NumQuestions |-> PyNone]
    /\ produced' = [i \in 1..NumQuestions |-> PyNone]
    /\ started' = [i \in 1..NumQuestions |-> 0]
    /\ phase' = "parallel"
    /\ UNCHANGED <<state, events, agg_index>>
    /\ UNCHANGED wvars
    /\ UNCHANGED <<pvars, tvars, avars>>

\* lines 177-209: a branch for every question, all of them the sub-agents
\* of one ParallelAgent, which starts them all
CreateBranches ==
    /\ Running("ResearchOrchestratorAgent")
    /\ phase = "start"
    /\ questions # <<>>
    /\ branches' = [i \in 1..NumQuestions |->
                       [question |-> strip(questions[i]),
                        target_key |-> i]]
    /\ parallel' = [i \in 1..NumQuestions |-> i]
    /\ bpc' = [i \in 1..NumQuestions |-> "set_question"]
    /\ agent_question' = [i \in 1..NumQuestions |-> PyNone]
    /\ produced' = [i \in 1..NumQuestions |-> PyNone]
    /\ started' = [i \in 1..NumQuestions |-> 0]
    /\ phase' = "parallel"
    /\ UNCHANGED <<state, events, agg_index>>
    /\ UNCHANGED wvars
    /\ UNCHANGED <<pvars, tvars, avars>>

InParallel(i) == \E k \in 1..Len(parallel) : parallel[k] = i

PriorityRank(priority) ==
    CASE priority = "high" -> 1
      [] priority = "medium" -> 2
      [] OTHER -> 3

\* the priority of the i-th gap question
PriorityOf(i) == PriorityRank(Get(state.gap_questions)[2][i].priority)

\* a branch held back until every branch of higher priority is done
SetQuestion_tiered(i) ==
    /\ InParallel(i)
    /\ bpc[i] = "set_question"
    /\ \A j \in 1..Len(bpc) : PriorityOf(j) < PriorityOf(i) => bpc[j] = "done"
    /\ state' = [state EXCEPT !.current_question = Val(branches[i].question)]
    /\ bpc' = [bpc EXCEPT ![i] = "research_start"]
    /\ events' = [events EXCEPT !.count = @ + 1]
    /\ UNCHANGED <<phase, branches, parallel, agent_question, produced, started,
                   agg_index>>
    /\ UNCHANGED wvars
    /\ UNCHANGED <<pvars, tvars, avars>>

\* _SetQuestionAgent._run_async_impl
SetQuestion(i) ==
    /\ InParallel(i)
    /\ bpc[i] = "set_question"
    /\ state' = [state EXCEPT !.current_question = Val(branches[i].question)]
    /\ bpc' = [bpc EXCEPT ![i] = "research_start"]
    /\ events' = [events EXCEPT !.count = @ + 1]
    /\ UNCHANGED <<phase, branches, parallel, agent_question, produced, started,
                   agg_index>>
    /\ UNCHANGED wvars
    /\ UNCHANGED <<pvars, tvars, avars>>

\* The research agent of branch i starts: it takes its question from
\* current_question.
ResearchStart(i) ==
    /\ InParallel(i)
    /\ bpc[i] = "research_start"
    /\ agent_question' = [agent_question EXCEPT ![i] = Get(state.current_question)]
    /\ started' = [started EXCEPT ![i] = @ + 1]
    /\ bpc' = [bpc EXCEPT ![i] = "research_finish"]
    /\ UNCHANGED <<state, phase, branches, parallel, produced, events, agg_index>>
    /\ UNCHANGED wvars
    /\ UNCHANGED <<pvars, tvars, avars>>

\* the answer of research agent i to the question it has read
AnswerOf(i) == Val([by |-> i, question |-> agent_question[i][2]])

\* The research agent of branch i finishes with an answer, saved under
\* research_answer.
ResearchAnswers(i) ==
    /\ InParallel(i)
    /\ bpc[i] = "research_finish"
    /\ state' = [state EXCEPT !.research_answer = AnswerOf(i)]
    /\ produced' = [produced EXCEPT ![i] = AnswerOf(i)]
    /\ bpc' = [bpc EXCEPT ![i] = "copy_answer"]
    /\ events' = [events EXCEPT !.count = @ + 1]
    /\ UNCHANGED <<phase, branches, parallel, agent_question, started, agg_index>>
    /\ UNCHANGED wvars
    /\ UNCHANGED <<pvars, tvars, avars>>

\* The research agent of branch i finishes without an answer.
ResearchNoAnswer(i) ==
    /\ InParallel(i)
    /\ bpc[i] = "research_finish"
    /\ bpc' = [bpc EXCEPT ![i] = "copy_answer"]
    /\ UNCHANGED <<state, phase, branches, parallel, agent_question, produced,
                   started, events, agg_index>>
    /\ UNCHANGED wvars
    /\ UNCHANGED <<pvars, tvars, avars>>

\* _CopyAnswerAgent._run_async_impl
CopyAnswer(i) ==
    /\ InParallel(i)
    /\ bpc[i] = "copy_answer"
    /\ LET answer == Get(state.research_answer)
       IN  state' = [state EXCEPT !.research_answer_i =
                        (branches[i].target_key :> answer) @@ @]
    /\ bpc' = [bpc EXCEPT ![i] = "done"]
    /\ events' = [events EXCEPT !.count = @ + 1]
    /\ UNCHANGED <<phase, branches, parallel, agent_question, produced, started,
                   agg_index>>
    /\ UNCHANGED wvars
    /\ UNCHANGED <<pvars, tvars, avars>>

\* lines 226-231
question_strings == questions

\* _AggregateAnswersAgent._run_async_impl, lines 104-118: the indices whose
\* key holds an answer, in the order of the loop
RECURSIVE answered_loop(_, _, _)
answered_loop(st, i, n) ==
    IF i > n THEN <<>>
    ELSE IF GetAnswerKey(st, i) = PyNone
         THEN answered_loop(st, i + 1, n)
         ELSE <<i>> \o answered_loop(st, i + 1, n)

\* the loop leaving at the first missing answer (break for continue)
RECURSIVE answered_until_miss(_, _, _)
answered_until_miss(st, i, n) ==
    IF i > n THEN <<>>
    ELSE IF GetAnswerKey(st, i) = PyNone
         THEN <<>>
         ELSE <<i>> \o answered_until_miss(st, i + 1, n)

answered_from(st, i, n) == answered_loop(st, i, n)

\* the entries carrying the stripped question of the branch
aggregate_answers_stripped(st, qs) ==
    LET kept == answered_from(st, 1, Len(qs))
    IN  [k \in 1..Len(kept) |->
            [question |-> strip(qs[kept[k]]),
             answer |-> GetAnswerKey(st, kept[k])[2]]]

aggregate_answers(st, qs) ==
    LET kept == answered_from(st, 1, Len(qs))
    IN  [k \in 1..Len(kept) |->
            [question |-> qs[kept[k]],
             answer |-> GetAnswerKey(st, kept[k])[2]]]

\* the parallel run taken to be over when its first sub-agent has finished
ParallelCompleted_first == \E k \in 1..Len(parallel) : bpc[parallel[k]] = "done"

\* every sub-agent of the ParallelAgent has finished
ParallelCompleted == \A k \in 1..Len(parallel) : bpc[parallel[k]] = "done"

\* lines 212-241: once the parallel run is over, aggregate
Aggregate ==
    /\ phase = "parallel"
    /\ ParallelCompleted
    /\ state' = [state EXCEPT !.comprehensive_answer_set =
                    Val([answers |-> aggregate_answers(state, question_strings)])]
    /\ agg_index' = answered_from(state, 1, Len(question_strings))
    /\ events' = [events EXCEPT !.count = @ + 1]
    /\ phase' = "aggregated"
    /\ UNCHANGED <<branches, parallel, bpc, agent_question, produced, started>>
    /\ UNCHANGED wvars
    /\ UNCHANGED <<pvars, tvars, avars>>

Branches == 1..Len(branches)

----------------------------------------------------------------------------
(* The steps of fact_check_orchestrator around the research stage.  The LLM  *)
(* agents are remote calls: one step each.                                   *)

\* the running agent has finished, the SequentialAgent goes on to the next
AgentFinished(agent) ==
    /\ stage' = stage + 1
    /\ finished' = Append(finished, agent)

\* claim_structuring_agent, output_key structured_claims
RunClaimStructuring ==
    /\ Running("ClaimStructuringAgent")
    /\ AgentFinished("ClaimStructuringAgent")
    /\ UNCHANGED <<ovars, wvars, tvars, avars>>

\* what the LLM of gap_identification_agent can leave under gap_questions:
\* nothing, an empty dict, or a GapQuestionsOutput
GapIdentificationOutputs == {Absent, EmptyDict} \cup {Val(l) : l \in GapQuestionLists}

\* gap_identification_agent, output_key gap_questions
RunGapIdentification ==
    /\ Running("GapIdentificationAgent")
    /\ \E gq \in GapIdentificationOutputs :
          state' = [state EXCEPT !.gap_questions = gq]
    /\ AgentFinished("GapIdentificationAgent")
    /\ UNCHANGED <<phase, branches, parallel, bpc, agent_question, produced,
                   started, events, agg_index>>
    /\ UNCHANGED <<wvars, tvars, avars>>

\* the research stage taken to be over whatever the orchestrator has done
ResearchReturned_early == TRUE

\* _run_async_impl of the research orchestrator has returned
ResearchReturned == phase \in {"aggregated", "escalated"}

\* the research stage is over; an escalating event does not stop a
\* SequentialAgent
ResearchStageDone ==
    /\ Running("ResearchOrchestratorAgent")
    /\ ResearchReturned
    /\ AgentFinished("ResearchOrchestratorAgent")
    /\ UNCHANGED <<ovars, wvars, tvars, avars>>

\* evidence_synthesizer_agent, output_key draft_report
RunEvidenceSynthesizer ==
    /\ Running("EvidenceSynthesizerAgent")
    /\ AgentFinished("EvidenceSynthesizerAgent")
    /\ UNCHANGED <<ovars, wvars, tvars, avars>>

\* adversarial_critique_agent, output_key critique_result
RunAdversarialCritique ==
    /\ Running("AdversarialCritiqueAgent")
    /\ AgentFinished("AdversarialCritiqueAgent")
    /\ UNCHANGED <<ovars, wvars, tvars, avars>>

NextOrchestrator ==
    \/ NoQuestions
    \/ CreateBranches
    \/ \E i \in Branches : SetQuestion(i)
    \/ \E i \in Branches : ResearchStart(i)
    \/ \E i \in Branches : ResearchAnswers(i)
    \/ \E i \in Branches : ResearchNoAnswer(i)
    \/ \E i \in Branches : CopyAnswer(i)
    \/ Aggregate

----------------------------------------------------------------------------
(* Specifications *)

\* the tool calls of the research workers
NextWorkers ==
    \/ \E w \in Workers, q \in Queries : BeginSearch(w, q)
    \/ \E w \in Workers, q \in Queries : EmbeddingReturns(w, q)
    \/ \E w \in Workers : SearchEmptyQuery(w)
    \/ \E w \in Workers : Scrape(w)

----------------------------------------------------------------------------
(* transform_adjudicated_report.  A pydantic model instance is a record with *)
(* the name of its class; factuality is in hundredths.                       *)

ReferenceOutput(is_supportive, citation, url) ==
    [class |-> "ReferenceOutput", is_supportive |-> is_supportive,
     citation |-> citation, url |-> url]

SectionItemOutput(claim_id, claim_text, argumentative_explanation) ==
    [class |-> "SectionItemOutput", claim_id |-> claim_id,
     claim_text |-> claim_text,
     argumentative_explanation |-> argumentative_explanation]

Verdicts == {"mostly_true", "mostly_false", "mixed", "unverified"}
Factualities == {0, 50, 100}
Headlines == {"", "True - one sentence"}
References ==
    {ReferenceOutput(TRUE, "quote a", "https://a"),
     ReferenceOutput(FALSE, "quote b", "https://b")}
ReferenceLists == UNION {[1..n -> References] : n \in 0..MaxReferences}
SectionLists(id) == {<<>>, <<SectionItemOutput(id, <<"claim ", id>>, <<"why ", id>>)>>}

\* the valid EvidenceAdjudicatorOutput instances considered
Reports ==
    {[class |-> "EvidenceAdjudicatorOutput", verdict |-> v, factuality |-> f,
      headline_summary_md |-> h, what_was_true |-> t, what_was_false |-> x,
      what_could_not_be_verified |-> u, references |-> r] :
        v \in Verdicts, f \in Factualities, h \in Headlines,
        t \in SectionLists("c1"), x \in SectionLists("c2"),
        u \in SectionLists("c3"), r \in ReferenceLists}

\* the lines of one section: its title, two lines for each item, an empty
\* line; a line is the sequence of its parts
RECURSIVE ItemLines(_, _)
ItemLines(items, k) ==
    IF k > Len(items) THEN <<>>
    ELSE << <<"- ", items[k].claim_text>>,
            <<"  ", items[k].argumentative_explanation>> >>
         \o ItemLines(items, k + 1)

SectionLines(title, items) ==
    IF items = <<>> THEN <<>>
    ELSE << <<title>> >> \o ItemLines(items, 1) \o << <<>> >>

\* "\n".join(lines).strip(): the empty lines at the end go
RECURSIVE StripLines(_)
StripLines(lines) ==
    IF lines # <<>> /\ lines[Len(lines)] = <<>>
    THEN StripLines(SubSeq(lines, 1, Len(lines) - 1))
    ELSE lines

_generate_reason_markdown(adjudicated_report) ==
    StripLines(SectionLines("## True", adjudicated_report.what_was_true)
               \o SectionLines("## False", adjudicated_report.what_was_false)
               \o SectionLines("## Unverified",
                               adjudicated_report.what_could_not_be_verified))

\* format(x, ".2f") of a value given in hundredths
Format2f(h) == <<h \div 100, ".", (h \div 10) % 10, h % 10>>

\* the fields of TransformationOutput; none has a default
TransformationOutputFields ==
    {"verdict", "factuality", "reason", "reason_summary", "score_justification",
     "references"}

\* TransformationOutput(**kwargs): pydantic validation.  A field without a
\* value is an error, and so is an item of references that is neither a
\* TransformationReferenceOutput nor a dict.
TransformationOutput(kwargs) ==
    LET missing == TransformationOutputFields \ DOMAIN kwargs
        wrong_type ==
            IF /\ "references" \in DOMAIN kwargs
               /\ \E k \in 1..Len(kwargs.references) :
                      kwargs.references[k].class # "TransformationReferenceOutput"
            THEN {"references"} ELSE {}
    IN  IF missing \cup wrong_type = {}
        THEN [status |-> "ok", value |-> kwargs]
        ELSE [status |-> "ValidationError", errors |-> missing \cup wrong_type]

transform_adjudicated_report(adjudicated_report) ==
    LET reason_markdown == _generate_reason_markdown(adjudicated_report)
    IN  TransformationOutput(
            [factuality |-> adjudicated_report.factuality,
             reason |-> reason_markdown,
             reason_summary |-> adjudicated_report.headline_summary_md,
             score_justification |->
                 <<"Overall verdict: ", adjudicated_report.verdict,
                   " with confidence ", Format2f(adjudicated_report.factuality)>>,
             references |-> adjudicated_report.references])

\* no report is being transformed
NoReport == [class |-> "NoneType"]
NotRun == [status |-> "not run"]
InitNoReport == report = NoReport /\ transformed = NotRun

\* no after-tool callback has run, nothing is being composed or chunked
NoComposition == [status |-> "none"]
NoChunker == [pc |-> "none"]
\* cache.get("url_to_query_mapping", {}) of a cache no search has written to
EmptyMapping == [u \in {} |-> ""]
InitNoAfterTool ==
    /\ alog = <<>>
    /\ composition = NoComposition
    /\ chunker = NoChunker
    /\ url_to_query_mapping = [c \in Workers |-> EmptyMapping]

\* the call transform_adjudicated_report(report)
Transform ==
    /\ report # NoReport
    /\ transformed = NotRun
    /\ transformed' = transform_adjudicated_report(report)
    /\ UNCHANGED <<report, ovars, wvars, pvars, avars>>

----------------------------------------------------------------------------
(* compose_after_tool_callbacks, for any list of callbacks.  A callback is a *)
(* function from the response it is passed to the response it returns, or to *)
(* None.                                                                     *)

ToolResponses == {"r0", "r1"}
NoneOut == "None"
Callbacks == [ToolResponses -> ToolResponses \cup {NoneOut}]
CallbackLists == UNION {[1..n -> Callbacks] : n \in 0..MaxCallbacks}

\* lines 465-471: the loop over the callbacks from the k-th on; passed is the
\* history of the responses the callbacks were called with
RECURSIVE run_callbacks(_, _, _, _)
run_callbacks(callbacks, k, current_response, passed) ==
    IF k > Len(callbacks)
    THEN [final |-> current_response, passed |-> passed]
    ELSE LET out == callbacks[k][current_response]
         IN  run_callbacks(callbacks, k + 1,
                           IF out # NoneOut THEN out ELSE current_response,
                           Append(passed, current_response))

\* the composition returning its last response whether or not it differs
compose_after_tool_callbacks_always_final(callbacks, tool_response) ==
    LET r == run_callbacks(callbacks, 1, tool_response, <<>>)
    IN  [passed |-> r.passed, final |-> r.final, returned |-> r.final]

\* compose_after_tool_callbacks(callbacks).combined
compose_after_tool_callbacks(callbacks, tool_response) ==
    LET r == run_callbacks(callbacks, 1, tool_response, <<>>)
    IN  [passed |-> r.passed, final |-> r.final,
         returned |-> IF r.final # tool_response THEN r.final ELSE NoneOut]

\* one call of the composed callback
Compose ==
    /\ composition.status = "ready"
    /\ composition' =
          [composition EXCEPT
              !.status = "done",
              !.result = compose_after_tool_callbacks(composition.callbacks,
                                                      composition.tool_response)]
    /\ UNCHANGED <<alog, chunker, url_to_query_mapping>>
    /\ UNCHANGED <<wvars, ovars, pvars, tvars>>

NextCompose == Compose

InitC ==
    /\ InitWorkers
    /\ SessionWith(Absent)
    /\ AtResearchStage
    /\ InitNoReport
    /\ alog = <<>>
    /\ chunker = NoChunker
    /\ url_to_query_mapping = [c \in Workers |-> EmptyMapping]
    /\ \E cbs \in CallbackLists, r \in ToolResponses :
          composition = [status |-> "ready", callbacks |-> cbs,
                         tool_response |-> r, result |-> NoComposition]

SpecCompose == InitC /\ [][NextCompose]_vars

----------------------------------------------------------------------------
(* The tools and the after-tool callbacks of a worker.  A text is a sequence *)
(* of characters.                                                            *)

Urls == {"u1", "u2"}

\* create_filter_scraped_content_callback: the defaults the factory leaves
\* in place; the threshold 0.75 in hundredths
default_similarity_threshold == 75
default_chunk_size == 4000
default_chunk_overlap == 200

\* a callback returning None
NoResponse == [class |-> "NoneType"]

\* not text.strip()
IsBlank(text) == \A i \in DOMAIN text : text[i] = " "

\* text[start:end] of Python, for end >= 0
Slice(text, start, end) ==
    LET len == Len(text)
        s == IF start < 0 THEN (IF len + start < 0 THEN 0 ELSE len + start)
                          ELSE (IF start > len THEN len ELSE start)
        e == IF end > len THEN len ELSE end
    IN  IF e <= s THEN <<>> ELSE SubSeq(text, s + 1, e)

\* chunk_text lines 257-261: one iteration of the loop, without the advance
chunk_step(text, chunk_size, start, chunks) ==
    LET chunk == Slice(text, start, start + chunk_size)
    IN  IF ~IsBlank(chunk) THEN Append(chunks, chunk) ELSE chunks

\* chunk_text lines 256-263: the loop from start on
RECURSIVE chunk_loop(_, _, _, _, _)
chunk_loop(text, chunk_size, overlap, start, chunks) ==
    IF start < Len(text)
    THEN chunk_loop(text, chunk_size, overlap, start + chunk_size - overlap,
                    chunk_step(text, chunk_size, start, chunks))
    ELSE chunks

chunk_text(text, chunk_size, overlap) ==
    IF text = <<>> \/ Len(text) <= chunk_size
    THEN (IF text # <<>> THEN <<text>> ELSE <<>>)
    ELSE chunk_loop(text, chunk_size, overlap, 0, <<>>)

\* "\n\n".join(chunks)
RECURSIVE JoinChunks(_)
JoinChunks(chunks) ==
    IF Len(chunks) = 0 THEN <<>>
    ELSE IF Len(chunks) = 1 THEN chunks[1]
    ELSE chunks[1] \o <<"\n", "\n">> \o JoinChunks(Tail(chunks))

\* The remote embedding of a document chunk, given by the letters it has.
TextEmbedding(text) ==
    <<IF \E i \in DOMAIN text : text[i] = "a" THEN 1 ELSE 0,
      IF \E i \in DOMAIN text : text[i] = "b" THEN 1 ELSE 0>>

\* EmbeddingService.generate_embeddings of one text: the provider's embedding,
\* or the zero vector when the provider fails
generate_embedding(embedding, outcome) ==
    IF outcome = "fallback" THEN ZeroVector ELSE embedding

ShortText == <<"a">>
\* one character more than a chunk: chunk_text cuts it into text[0:4000] and
\* text[3800:4001]
LongText ==
    [i \in 1..(default_chunk_size + 1) |->
        IF i <= default_chunk_size - default_chunk_overlap THEN "a" ELSE "b"]

\* _scrape_single_website: what fetching one URL gave
ScrapeSuccess(url, content) == [url |-> url, status |-> "success", content |-> content]
ScrapeError(url) == [url |-> url, status |-> "error", content |-> <<>>]

\* the results of scraping the URLs of one scrape_tool call
ScrapeResultLists ==
    {<<>>, <<ScrapeError("u1")>>, <<ScrapeSuccess("u1", ShortText)>>,
     <<ScrapeSuccess("u1", LongText)>>,
     <<ScrapeSuccess("u2", LongText), ScrapeSuccess("u1", <<" ">>)>>}

\* A str built by scrape_tool is kept as the list of its parts
\* "# Content from {url}\n\n{content}\n\n---\n"; a dict as the list of its items.
StrOf(parts) == [type |-> "str", items |-> parts]
DictOf(items) == [type |-> "dict", items |-> items]

\* scrape_tool, given what scraping each URL gave
scrape_tool(results) ==
    IF results = <<>>
    THEN [status |-> "error", combined_content |-> StrOf(<<>>)]
    ELSE LET successful_results == SelectSeq(results, LAMBDA r : r.status = "success")
             content_parts == SelectSeq(successful_results,
                                        LAMBDA r : ~IsBlank(r.content))
         IN  [status |-> IF Len(successful_results) > 0 THEN "success" ELSE "error",
              combined_content |->
                  StrOf([k \in 1..Len(content_parts) |->
                            [url |-> content_parts[k].url,
                             content |-> content_parts[k].content]])]

\* search_tool: the results of a search that succeeded, or an error
SearchSuccess(urls) ==
    [status |-> "success", results |-> [k \in 1..Len(urls) |-> [url |-> urls[k]]]]
SearchError == [status |-> "error"]
SearchResponses ==
    {SearchError, SearchSuccess(<<>>), SearchSuccess(<<"u1">>),
     SearchSuccess(<<"u2">>), SearchSuccess(<<"u1", "u2">>)}

\* store_search_urls lines 215-218 without overwriting a URL already stored
RECURSIVE store_results_keep_first(_, _, _, _)
store_results_keep_first(results, k, query, url_to_query) ==
    IF k > Len(results) THEN url_to_query
    ELSE LET url == results[k].url
         IN  store_results_keep_first(results, k + 1, query,
                 IF url # "" /\ url \notin DOMAIN url_to_query
                 THEN [u \in DOMAIN url_to_query \cup {url} |->
                          IF u = url THEN query ELSE url_to_query[u]]
                 ELSE url_to_query)

\* store_search_urls lines 215-218: the loop over the results from the k-th on
RECURSIVE store_results(_, _, _, _)
store_results(results, k, query, url_to_query) ==
    IF k > Len(results) THEN url_to_query
    ELSE LET url == results[k].url
         IN  store_results(results, k + 1, query,
                 IF url # ""
                 THEN [u \in DOMAIN url_to_query \cup {url} |->
                          IF u = url THEN query ELSE url_to_query[u]]
                 ELSE url_to_query)

\* store_search_urls: what it returns and what it leaves in the cache
store_search_urls(tool, args, tool_response, url_to_query) ==
    LET query == IF "query" \in DOMAIN args THEN args.query ELSE EmptyQuery
        results == IF "results" \in DOMAIN tool_response
                   THEN tool_response.results ELSE <<>>
    IN  IF tool # "search_tool" \/ query = EmptyQuery \/ results = <<>>
        THEN [returned |-> NoResponse, mapping |-> url_to_query]
        ELSE [returned |-> NoResponse,
              mapping |-> store_results(results, 1, query, url_to_query)]

\* filter_scraped_content lines 332-405: the content kept for one URL
filter_content(url, content, url_to_query, outcome) ==
    LET query == IF url \in DOMAIN url_to_query THEN url_to_query[url] ELSE EmptyQuery
        query_embedding == generate_embedding(TrueEmbedding(query), outcome)
        chunks == chunk_text(content, default_chunk_size, default_chunk_overlap)
        filtered_chunks ==
            SelectSeq(chunks,
                      LAMBDA c : cosine_similarity_ge(
                                     generate_embedding(TextEmbedding(c), outcome),
                                     query_embedding, default_similarity_threshold))
    IN  IF query = EmptyQuery THEN content
        ELSE IF chunks = <<>> THEN content
        ELSE IF filtered_chunks = <<>> THEN content
        ELSE JoinChunks(filtered_chunks)

\* filter_scraped_content
filter_scraped_content(tool, tool_response, url_to_query, outcome) ==
    LET combined_content == IF "combined_content" \in DOMAIN tool_response
                            THEN tool_response.combined_content ELSE DictOf(<<>>)
        unique_queries == {url_to_query[u] : u \in DOMAIN url_to_query} \ {EmptyQuery}
        items == SelectSeq(combined_content.items, LAMBDA it : ~IsBlank(it.content))
    IN  IF tool # "scrape_tool" THEN NoResponse
        ELSE IF combined_content.items = <<>> \/ combined_content.type # "dict"
        THEN NoResponse
        ELSE IF DOMAIN url_to_query = {} THEN NoResponse
        ELSE IF unique_queries = {} THEN NoResponse
        ELSE IF outcome = "raise" THEN NoResponse
        ELSE [status |-> IF "status" \in DOMAIN tool_response
                         THEN tool_response.status ELSE "success",
              combined_content |->
                  DictOf([k \in 1..Len(items) |->
                             [url |-> items[k].url,
                              content |-> filter_content(items[k].url, items[k].content,
                                                         url_to_query, outcome)]])]

\* create_combined_after_tool_callback: the composition of store_search_urls
\* and filter_scraped_content on the cache of one worker
combined_after_tool_callback(tool, args, tool_response, url_to_query, outcome) ==
    LET stored == store_search_urls(tool, args, tool_response, url_to_query)
        response1 == IF stored.returned # NoResponse THEN stored.returned
                                                     ELSE tool_response
        filtered == filter_scraped_content(tool, response1, stored.mapping, outcome)
        response2 == IF filtered # NoResponse THEN filtered ELSE response1
    IN  [stored |-> stored.returned,
         filter_passed |-> response1,
         mapping |-> stored.mapping,
         returned |-> IF response2 # tool_response THEN response2 ELSE NoResponse]

\* the after-tool callback of worker w runs on the response of a tool
AfterTool(w, tool, args, tool_response, outcome) ==
    LET c == callback_cache_of(w)
        out == combined_after_tool_callback(tool, args, tool_response,
                                            url_to_query_mapping[c], outcome)
    IN  /\ Len(alog) < MaxAfterCalls
        /\ url_to_query_mapping' = [url_to_query_mapping EXCEPT ![c] = out.mapping]
        /\ alog' = Append(alog, [worker |-> w, tool |-> tool, args |-> args,
                                 tool_response |-> tool_response,
                                 outcome |-> outcome, out |-> out])
        /\ UNCHANGED <<composition, chunker>>
        /\ UNCHANGED <<wvars, ovars, pvars, tvars>>

\* search_tool has returned to worker w
SearchReturns(w) ==
    \E query \in {"qa", "qc", EmptyQuery}, tool_response \in SearchResponses :
        AfterTool(w, "search_tool", [query |-> query], tool_response, "ok")

\* scrape_tool has returned to worker w
ScrapeReturns(w) ==
    \E results \in ScrapeResultLists, outcome \in EmbeddingOutcomes :
        AfterTool(w, "scrape_tool",
                  [urls |-> [k \in 1..Len(results) |-> results[k].url]],
                  scrape_tool(results), outcome)

NextAfterTool ==
    \/ \E w \in Workers : SearchReturns(w)
    \/ \E w \in Workers : ScrapeReturns(w)

InitA ==
    /\ InitWorkers
    /\ SessionWith(Absent)
    /\ AtResearchStage
    /\ InitNoReport
    /\ InitNoAfterTool

SpecAfterTool == InitA /\ [][NextAfterTool]_vars

----------------------------------------------------------------------------
(* One call of chunk_text, iteration by iteration *)

RECURSIVE TextsOfLen(_)
TextsOfLen(n) ==
    IF n = 0 THEN {<<>>}
    ELSE {Append(t, ch) : t \in TextsOfLen(n - 1), ch \in {"a", " "}}

ChunkTexts == UNION {TextsOfLen(n) : n \in 0..MaxTextLen}
ChunkSizes == {1, 2}
Overlaps == {0, 1, 2, 3}

\* lines 250-254: the early return, or the entry into the loop
ChunkCall ==
    /\ chunker.pc = "call"
    /\ chunker' =
          IF chunker.text = <<>> \/ Len(chunker.text) <= chunker.chunk_size
          THEN [chunker EXCEPT
                   !.pc = "returned",
                   !.chunks = IF chunker.text # <<>> THEN <<chunker.text>> ELSE <<>>]
          ELSE [chunker EXCEPT !.pc = "loop"]
    /\ UNCHANGED <<alog, composition, url_to_query_mapping>>
    /\ UNCHANGED <<wvars, ovars, pvars, tvars>>

\* lines 256-263: one iteration of the loop
ChunkIterate ==
    /\ chunker.pc = "loop"
    /\ chunker.start < Len(chunker.text)
    /\ chunker.iterations < MaxIterations
    /\ chunker' =
          [chunker EXCEPT
              !.chunks = chunk_step(chunker.text, chunker.chunk_size,
                                    chunker.start, chunker.chunks),
              !.start = chunker.start + chunker.chunk_size - chunker.overlap,
              !.iterations = chunker.iterations + 1]
    /\ UNCHANGED <<alog, composition, url_to_query_mapping>>
    /\ UNCHANGED <<wvars, ovars, pvars, tvars>>

\* lines 256, 265: the loop condition fails, the chunks are returned
ChunkReturn ==
    /\ chunker.pc = "loop"
    /\ ~(chunker.start < Len(chunker.text))
    /\ chunker' = [chunker EXCEPT !.pc = "returned"]
    /\ UNCHANGED <<alog, composition, url_to_query_mapping>>
    /\ UNCHANGED <<wvars, ovars, pvars, tvars>>

NextChunk == ChunkCall \/ ChunkIterate \/ ChunkReturn

InitK ==
    /\ InitWorkers
    /\ SessionWith(Absent)
    /\ AtResearchStage
    /\ InitNoReport
    /\ alog = <<>>
    /\ composition = NoComposition
    /\ url_to_query_mapping = [c \in Workers |-> EmptyMapping]
    /\ \E text \in ChunkTexts, chunk_size \in ChunkSizes, overlap \in Overlaps :
          chunker = [pc |-> "call", text |-> text, chunk_size |-> chunk_size,
                     overlap |-> overlap, start |-> 0, chunks |-> <<>>,
                     iterations |-> 0]

SpecChunk == InitK /\ [][NextChunk]_vars

InitW ==
    /\ InitWorkers
    /\ SessionWith(Absent)
    /\ AtResearchStage
    /\ InitNoReport
    /\ InitNoAfterTool

SpecWorkers == InitW /\ [][NextWorkers]_vars

\* one run of the research orchestrator
InitO ==
    /\ InitWorkers
    /\ \E gq \in {Absent, PyNone, EmptyDict} \cup {Val(l) : l \in GapQuestionLists} :
          SessionWith(gq)
    /\ AtResearchStage
    /\ InitNoReport
    /\ InitNoAfterTool

SpecOrchestrator == InitO /\ [][NextOrchestrator]_vars

\* the research orchestrator up to the start of its parallel run, on lists
\* of any length
NextFanOut ==
    \/ NoQuestions
    \/ CreateBranches

InitF ==
    /\ InitWorkers
    /\ \E gq \in {Absent, PyNone, EmptyDict} \cup {Val(l) : l \in LongGapQuestionLists} :
          SessionWith(gq)
    /\ AtResearchStage
    /\ InitNoReport
    /\ InitNoAfterTool

SpecFanOut == InitF /\ [][NextFanOut]_vars

\* one call of transform_adjudicated_report on a valid report
NextTransform == Transform

InitT ==
    /\ InitWorkers
    /\ SessionWith(Absent)
    /\ AtResearchStage
    /\ report \in Reports
    /\ transformed = NotRun
    /\ InitNoAfterTool

SpecTransform == InitT /\ [][NextTransform]_vars

\* one run of fact_check_orchestrator, from its first agent
NextPipeline ==
    \/ RunClaimStructuring
    \/ RunGapIdentification
    \/ NextOrchestrator
    \/ ResearchStageDone
    \/ RunEvidenceSynthesizer
    \/ RunAdversarialCritique

InitP ==
    /\ InitWorkers
    /\ SessionWith(Absent)
    /\ stage = 1
    /\ finished = <<>>
    /\ InitNoReport
    /\ InitNoAfterTool

SpecPipeline == InitP /\ [][NextPipeline]_vars

----------------------------------------------------------------------------
(* Properties of the before-tool callbacks *)

LogIndex == 1..Len(log)

\* the number of calls of a tool that worker w was allowed to execute
NumExecuted(w, tool_name) ==
    Cardinality({n \in LogIndex : /\ log[n].w = w
                                  /\ log[n].tool = tool_name
                                  /\ log[n].executed})

CallBudgetRespected ==
    \A w \in Workers :
        /\ NumExecuted(w, "search_tool") <= 2
        /\ NumExecuted(w, "scrape_tool") <= 1

\* C1, as stated: per worker at most 2 search calls and 1 scrape call execute,
\* and every attempt decided while the counter of its tool is at the maximum
\* is not executed and gets the result "<tool> call limit reached".
C1_AsStated ==
    /\ CallBudgetRespected
    /\ \A n \in LogIndex :
        log[n].atMax => /\ ~log[n].executed
                        /\ log[n].out = LimitError(log[n].tool)

\* C1, amended: per worker at most 2 search calls and 1 scrape call execute,
\* and every attempt decided while the counter of its tool is at the maximum
\* is not executed; it gets "<tool> call limit reached" unless it is a search
\* the deduplication check rejected first, which gets the duplicate error.
C1_CallLimits ==
    /\ CallBudgetRespected
    /\ \A n \in LogIndex :
        log[n].atMax =>
            /\ ~log[n].executed
            /\ IF log[n].dup
               THEN log[n].tool = "search_tool" /\ log[n].out = DuplicateError
               ELSE log[n].out = LimitError(log[n].tool)

\* a worker has executed its 2 searches and a further, non-duplicate search
\* has been refused with the limit error
C1_Witness ==
    \E w \in Workers, n \in LogIndex :
        /\ NumExecuted(w, "search_tool") = 2
        /\ log[n].w = w
        /\ log[n].tool = "search_tool"
        /\ log[n].atMax
        /\ ~log[n].dup
        /\ log[n].out = LimitError("search_tool")

ExecutedSearches(w) ==
    {n \in LogIndex : /\ log[n].w = w
                      /\ log[n].tool = "search_tool"
                      /\ log[n].executed}

\* C2, as stated: within one worker no two executed search calls have
\* queries whose embeddings have cosine similarity >= 0.85.
C2_AsStated ==
    \A w \in Workers :
        \A m, n \in ExecutedSearches(w) :
            (m # n /\ log[m].query # EmptyQuery /\ log[n].query # EmptyQuery)
                => ~cosine_similarity_ge(TrueEmbedding(log[m].query),
                                         TrueEmbedding(log[n].query),
                                         COSINE_SIMILARITY_THRESHOLD)

\* C2, amended: within one worker no two executed search calls have stored
\* embeddings (what the embedding service returned to the check, a zero
\* vector when the service failed) with cosine similarity >= 0.85; a query
\* whose embedding failed or whose check raised is let through.
C2_NoSimilarPairExecuted ==
    \A w \in Workers :
        \A m, n \in ExecutedSearches(w) :
            (m # n /\ log[m].emb # NoEmbedding /\ log[n].emb # NoEmbedding)
                => ~cosine_similarity_ge(log[m].emb, log[n].emb,
                                         COSINE_SIMILARITY_THRESHOLD)

\* a search executed, and a later search of the same worker with a similar,
\* successfully embedded query was rejected as a duplicate
C2_Witness ==
    \E m, n \in LogIndex :
        /\ m < n
        /\ log[m].w = log[n].w
        /\ log[m].tool = "search_tool" /\ log[m].executed
        /\ log[m].emb # NoEmbedding /\ log[m].emb # ZeroVector
        /\ log[n].tool = "search_tool" /\ log[n].dup /\ ~log[n].executed
        /\ log[m].query # log[n].query

\* C3: a search whose query the check finds similar to a previous one gets
\* the result "Query is too similar to a previous query" and is not executed;
\* no exception leaves the callback, no worker is aborted, and a worker can
\* issue a further tool call.
C3_DuplicateRejectedWithoutAbort ==
    /\ \A n \in LogIndex :
        log[n].dup => /\ log[n].out = DuplicateError
                      /\ ~log[n].executed
    /\ \A w \in Workers :
        /\ ~aborted[w]
        /\ nAttempts < MaxAttempts => ENABLED Scrape(w)

\* a worker had a search rejected as a duplicate and afterwards executed
\* another tool call
C3_Witness ==
    \E m, n \in LogIndex :
        /\ m < n
        /\ log[m].w = log[n].w
        /\ log[m].dup /\ log[m].out = DuplicateError
        /\ log[n].executed

----------------------------------------------------------------------------
(* Properties of the research orchestrator *)

Answers == state.comprehensive_answer_set[2].answers

AggregationReached == phase \in {"parallel", "aggregated"} /\ ParallelCompleted

\* the research agent of branch i has started / has finished
WorkerStarted(i) == started[i] > 0
WorkerFinished(i) == bpc[i] \in {"copy_answer", "done"}
WorkerRunning(i) == bpc[i] = "research_finish"

\* C4, as stated: when aggregation starts, research_answer_i holds the answer
\* that the research agent of branch i produced, and that answer is an answer
\* to question i.
C4_AsStated ==
    AggregationReached =>
        \A i \in Branches :
            /\ GetAnswerKey(state, i) = produced[i]
            /\ produced[i] # PyNone
                   => produced[i][2].question = strip(questions[i])

Ceil(n, b) == (n + b - 1) \div b

NumBatches == IF parallel = <<>> THEN 0 ELSE 1

NumRunning == Cardinality({i \in Branches : WorkerRunning(i)})

\* C6, as stated, for a batch size b: ceil(N/b) batches, at most b workers in
\* a batch, at most b workers running at any time.
BatchedBy(b) ==
    phase \in {"parallel", "aggregated"} =>
        /\ NumBatches = Ceil(NumQuestions, b)
        /\ Len(parallel) <= b
        /\ NumRunning <= b

C7_MissesFilteredOut ==
    phase = "aggregated" =>
        /\ Len(Answers) = Len(agg_index)
        /\ Len(Answers) = Cardinality({i \in 1..NumQuestions :
                                          GetAnswerKey(state, i) # PyNone})
        /\ \A i \in 1..NumQuestions :
            (GetAnswerKey(state, i) # PyNone)
                <=> (\E k \in 1..Len(agg_index) : agg_index[k] = i)
        /\ \A k, l \in 1..Len(agg_index) : k # l => agg_index[k] # agg_index[l]
        /\ \A k \in 1..Len(agg_index) :
            Val(Answers[k].answer) = GetAnswerKey(state, agg_index[k])

\* aggregated, a key that holds None comes before a key that holds an answer
C7_Witness ==
    /\ phase = "aggregated"
    /\ \E i, j \in 1..NumQuestions :
        /\ i < j
        /\ GetAnswerKey(state, i) = PyNone
        /\ GetAnswerKey(state, j) # PyNone

\* C8: the entries of the aggregate are in strictly increasing question
\* index, and the entry built from research_answer_i carries the text of the
\* i-th gap question.
C8_OrderAndPairing ==
    phase = "aggregated" =>
        /\ \A k, l \in 1..Len(agg_index) : k < l => agg_index[k] < agg_index[l]
        /\ \A k \in 1..Len(agg_index) :
            Answers[k].question = Get(state.gap_questions)[2][agg_index[k]].question

\* aggregated with two entries or more, one for a question whose text has
\* surrounding blanks
C8_Witness ==
    /\ phase = "aggregated"
    /\ Len(Answers) >= 2
    /\ \E k \in 1..Len(Answers) : strip(Answers[k].question) # Answers[k].question

\* C9, as stated: every worker is started at most once, and when a worker
\* has produced no answer the aggregate still holds the answer of every
\* worker that produced one.
C9_AsStated ==
    /\ \A i \in Branches : started[i] <= 1
    /\ (phase = "aggregated" /\ \E i \in Branches : produced[i] = PyNone) =>
        \A j \in Branches :
            produced[j] # PyNone =>
                \E k \in 1..Len(Answers) : Val(Answers[k].answer) = produced[j]

\* C10: once comprehensive_answer_set is written every branch has finished,
\* and no research_answer_i is written afterwards.
C10_FanInBarrier ==
    /\ [](state.comprehensive_answer_set # Absent =>
            \A i \in Branches : bpc[i] = "done")
    /\ [][state.comprehensive_answer_set # Absent =>
            state'.research_answer_i = state.research_answer_i]_vars

\* the aggregate is written after two or more branches have each written
\* their key
C10_Witness ==
    /\ phase = "aggregated"
    /\ Len(branches) >= 2
    /\ \A i \in Branches : i \in DOMAIN state.research_answer_i

----------------------------------------------------------------------------
\* the embeddings the deduplication check stored for the searches of worker w
OwnEmbeddings(w) ==
    LET own == SelectSeq(log, LAMBDA e : e.w = w /\ e.emb # NoEmbedding)
    IN  [k \in 1..Len(own) |-> own[k].emb]

\* executed calls of tool_name by worker w among the first n attempts
NumExecutedBefore(w, tool_name, n) ==
    Cardinality({m \in 1..(n - 1) :
        log[m].w = w /\ log[m].tool = tool_name /\ log[m].executed})

----------------------------------------------------------------------------
(* Properties of the pipeline *)

\* the research orchestrator has started
ResearchStarted == phase # "start"

\* the synthesis stage has started: its first agent is running or is over
SynthesisStarted == stage > Len(analysis_stage) + Len(research_stage)

HasFinished(agent) == \E k \in 1..Len(finished) : finished[k] = agent

\* C12: the top-level orchestrator runs the fixed sequence analysis ->
\* research -> synthesis.  The agents finish in the order of the sequence;
\* gap_questions is written only once claim structuring has finished; the
\* research orchestrator starts only after gap identification has finished;
\* the synthesis stage starts only after the research orchestrator has
\* returned and has written comprehensive_answer_set.
C12_StageOrder ==
    /\ Len(finished) <= Len(fact_check_orchestrator)
    /\ finished = SubSeq(fact_check_orchestrator, 1, Len(finished))
    /\ stage = Len(finished) + 1
    /\ (state.gap_questions # Absent => HasFinished("ClaimStructuringAgent"))
    /\ (ResearchStarted => HasFinished("GapIdentificationAgent"))
    /\ (SynthesisStarted =>
          /\ HasFinished("ResearchOrchestratorAgent")
          /\ ResearchReturned
          /\ state.comprehensive_answer_set # Absent)

\* the whole pipeline has run, the research stage having aggregated the
\* answers of two branches
C12_Witness ==
    /\ finished = fact_check_orchestrator
    /\ phase = "aggregated"
    /\ Len(branches) = 2
    /\ Len(state.comprehensive_answer_set[2].answers) >= 1

----------------------------------------------------------------------------
\* C13: the number of research workers created in one run never exceeds
\* MAX_GAP_QUESTIONS = 15, whatever list gap identification has left in the
\* session state.
C13_AsStated == Len(branches) <= MAX_GAP_QUESTIONS

----------------------------------------------------------------------------
\* C14: for every valid report, transform_adjudicated_report does not fail
\* and returns a TransformationOutput whose verdict and factuality equal
\* those of the report, whose reason_summary is headline_summary_md and
\* whose references are those of the report in the same order.
C14_AsStated ==
    transformed # NotRun =>
        /\ transformed.status = "ok"
        /\ transformed.value.verdict = report.verdict
        /\ transformed.value.factuality = report.factuality
        /\ transformed.value.reason_summary = report.headline_summary_md
        /\ Len(transformed.value.references) = Len(report.references)
        /\ \A k \in 1..Len(report.references) :
              /\ transformed.value.references[k].url = report.references[k].url
              /\ transformed.value.references[k].is_supportive
                     = report.references[k].is_supportive

----------------------------------------------------------------------------
(* Frame properties of the before-tool callbacks.  A step in which the       *)
(* callbacks decide an attempt appends one record to log.                    *)

Decided == Len(log') = Len(log) + 1
LastDecided == log'[Len(log')]

\* the calls counters of every cache are left as they were
CountersUnchanged == \A w \in Workers : cache'[w].calls = cache[w].calls

\* the embedding history of every cache is left as it was
HistoryUnchanged == \A w \in Workers : cache'[w].embeddings = cache[w].embeddings

\* a search with a non-empty query: the calls the deduplication check examines
Examined(e) == e.tool = "search_tool" /\ e.query # EmptyQuery

\* C15: the combined before-tool callback runs the deduplication check
\* first and the limit check second and stops at the first result: a search
\* rejected as a duplicate gets the duplicate error whatever its counter,
\* is not executed, and never reaches the limit check, so it moves no
\* call counter.
C15_DuplicateNotCounted ==
    /\ [](\A n \in LogIndex :
            log[n].dup => /\ log[n].out = DuplicateError
                          /\ ~log[n].executed)
    /\ [][(Decided /\ LastDecided.dup) => CountersUnchanged]_vars

\* a worker executes a search, has a duplicate rejected, and still has the
\* second of its two searches executed afterwards
C15_Witness ==
    \E l, m, n \in LogIndex :
        /\ l < m /\ m < n
        /\ log[l].w = log[m].w /\ log[m].w = log[n].w
        /\ log[l].executed /\ log[l].tool = "search_tool"
        /\ log[m].dup
        /\ log[n].executed /\ log[n].tool = "search_tool"

\* the deduplication check of a non-empty search query that failed: the
\* embedding stored for it is not the embedding of the query
CheckFailed(e) ==
    /\ Examined(e)
    /\ e.emb # TrueEmbedding(e.query)

\* C16 as stated: when generating or comparing the embedding fails, the
\* check returns None, the call goes on to the limit check, and the
\* embedding history is left as it was before the call.
C16_AsStated ==
    [][(Decided /\ CheckFailed(LastDecided)) =>
          /\ ~LastDecided.dup
          /\ LastDecided.executed = ~LastDecided.atMax
          /\ HistoryUnchanged]_vars

\* C16: the deduplication check fails open.  A search whose check failed is
\* never rejected as a duplicate and goes on to the limit check, which
\* alone decides whether it executes, and the worker is not aborted.  When
\* an exception was raised inside the check the embedding history is left
\* as it was; when the embedding provider failed, generate_embeddings
\* returned a zero vector and that vector is appended to the history.
C16_FailOpen ==
    [][(Decided /\ CheckFailed(LastDecided)) =>
          /\ ~LastDecided.dup
          /\ LastDecided.executed = ~LastDecided.atMax
          /\ ~aborted'[LastDecided.w]
          /\ LastDecided.emb \in {NoEmbedding, ZeroVector}
          /\ \A w \in Workers :
                cache'[w].embeddings =
                    IF w = LastDecided.w /\ LastDecided.emb = ZeroVector
                    THEN Append(cache[w].embeddings, ZeroVector)
                    ELSE cache[w].embeddings]_vars

\* a search is executed, then the check of the same query by the same
\* worker raises and that search is executed too, once more the check of
\* the query fails with the provider down and the limit check blocks it
C16_Witness ==
    \E l, m, n \in LogIndex :
        /\ l < m /\ m < n
        /\ log[l].w = log[m].w /\ log[m].w = log[n].w
        /\ \A k \in {l, m, n} : Examined(log[k])
        /\ log[l].query = log[m].query /\ log[m].query = log[n].query
        /\ log[l].executed /\ log[l].emb = TrueEmbedding(log[l].query)
        /\ log[m].executed /\ log[m].emb = NoEmbedding
        /\ log[n].emb = ZeroVector /\ log[n].out = LimitError("search_tool")

----------------------------------------------------------------------------
\* the non-empty search queries of worker w the deduplication check has
\* examined, in the order of the checks
ExaminedBy(w) == SelectSeq(log, LAMBDA e : e.w = w /\ Examined(e))

\* C17 as stated: the embedding history holds the embedding of every
\* non-empty search query the check has examined, rejected duplicates and
\* queries blocked by the limit included; hence a query similar to a
\* previously rejected query is rejected as well.
C17_AsStated ==
    /\ \A w \in Workers :
          cache[w].embeddings =
              [k \in 1..Len(ExaminedBy(w)) |-> TrueEmbedding(ExaminedBy(w)[k].query)]
    /\ \A m, n \in LogIndex :
          (/\ m < n
           /\ log[m].w = log[n].w
           /\ Examined(log[m]) /\ Examined(log[n])
           /\ log[m].dup
           /\ cosine_similarity_ge(TrueEmbedding(log[n].query),
                                   TrueEmbedding(log[m].query),
                                   COSINE_SIMILARITY_THRESHOLD))
          => log[n].dup

\* C17: the embedding history of a worker holds, in the order of the checks,
\* one vector for every non-empty search query whose check did not raise:
\* the vector generate_embeddings returned, which is the embedding of the
\* query or the zero vector; it is stored whether the query was then
\* executed, rejected as a duplicate or blocked by the limit.  Hence a query
\* whose vector has similarity >= 0.85 to the vector stored for an earlier
\* query of the worker, a rejected or blocked one included, is rejected.
C17_HistoryKeepsRejected ==
    /\ \A w \in Workers :
          /\ Len(cache[w].embeddings) <= Len(ExaminedBy(w))
          /\ cache[w].embeddings = OwnEmbeddings(w)
    /\ \A n \in LogIndex :
          /\ (log[n].emb # NoEmbedding =>
                /\ Examined(log[n])
                /\ log[n].emb \in {TrueEmbedding(log[n].query), ZeroVector})
          /\ (log[n].dup => log[n].emb # NoEmbedding)
          /\ (log[n].emb # NoEmbedding =>
                \E k \in 1..Len(cache[log[n].w].embeddings) :
                    cache[log[n].w].embeddings[k] = log[n].emb)
    /\ \A m, n \in LogIndex :
          (/\ m < n
           /\ log[m].w = log[n].w
           /\ log[m].emb # NoEmbedding /\ log[n].emb # NoEmbedding
           /\ cosine_similarity_ge(log[n].emb, log[m].emb,
                                   COSINE_SIMILARITY_THRESHOLD))
          => log[n].dup

\* a query is rejected as a duplicate, and a later query of the worker that
\* is similar to the rejected one only is rejected as well
C17_Witness ==
    \E l, m, n \in LogIndex :
        /\ l < m /\ m < n
        /\ log[l].w = log[m].w /\ log[m].w = log[n].w
        /\ log[l].executed /\ log[l].emb # NoEmbedding
        /\ log[m].dup
        /\ log[n].dup
        /\ ~cosine_similarity_ge(log[n].emb, log[l].emb, COSINE_SIMILARITY_THRESHOLD)
        /\ cosine_similarity_ge(log[n].emb, log[m].emb, COSINE_SIMILARITY_THRESHOLD)

----------------------------------------------------------------------------
----------------------------------------------------------------------------
\* C19: the deduplication check applies only to search_tool calls with a
\* non-empty query.  For a scrape_tool call and for a search with an empty
\* or missing query it returns None (the call is never rejected as a
\* duplicate; the limit check alone decides), stores no embedding and
\* leaves the embedding history as it was.
C19_OnlyNonEmptySearches ==
    [][(Decided /\ ~Examined(LastDecided)) =>
          /\ ~LastDecided.dup
          /\ LastDecided.out # DuplicateError
          /\ LastDecided.executed = ~LastDecided.atMax
          /\ LastDecided.emb = NoEmbedding
          /\ HistoryUnchanged]_vars

\* with a query in its history, a worker makes a scrape call and a search
\* with an empty query
C19_Witness ==
    \E l, m, n \in LogIndex :
        /\ l < m /\ l < n
        /\ log[l].w = log[m].w /\ log[m].w = log[n].w
        /\ Examined(log[l]) /\ log[l].emb # NoEmbedding
        /\ log[m].tool = "scrape_tool"
        /\ log[n].tool = "search_tool" /\ log[n].query = EmptyQuery
        /\ log[n].executed
        /\ Len(cache[log[n].w].embeddings) = 1

----------------------------------------------------------------------------
\* the session state holds no gap questions: the key is absent, holds None,
\* holds an empty dict, or holds an empty list of questions
NoGapQuestions ==
    state.gap_questions \in {Absent, PyNone, EmptyDict, Val(<<>>)}

\* C20: when the session state holds no gap questions, the orchestrator
\* takes its empty path and nothing else: it writes comprehensive_answer_set
\* = {answers: []}, emits exactly one event, with escalate set, creates no
\* branch, starts no parallel run and runs no aggregation.
C20_EmptyPath ==
    NoGapQuestions =>
        /\ phase \in {"start", "escalated"}
        /\ branches = <<>> /\ parallel = <<>> /\ bpc = <<>>
        /\ agg_index = <<>>
        /\ phase = "start" =>
              /\ ENABLED NoQuestions
              /\ ~ENABLED CreateBranches
              /\ events = [count |-> 0, escalate |-> FALSE]
        /\ phase = "escalated" =>
              /\ state.comprehensive_answer_set = Val([answers |-> <<>>])
              /\ events = [count |-> 1, escalate |-> TRUE]
              /\ ~ENABLED NextOrchestrator

\* the orchestrator has returned from a run on an empty list of questions
C20_Witness ==
    /\ state.gap_questions = Val(<<>>)
    /\ phase = "escalated"
    /\ events.escalate

----------------------------------------------------------------------------
(* Properties of the after-tool callbacks *)

\* what the k-th callback of the composition returned for what it was passed
CallbackOut(k) == composition.callbacks[k][composition.result.passed[k]]

\* the response after the k-th callback: what it returned, or what it was
\* passed if it returned None
ResponseAfter(k) ==
    IF CallbackOut(k) # NoneOut THEN CallbackOut(k) ELSE composition.result.passed[k]

\* C21: the combined after-tool callback runs its callbacks in sequence:
\* every callback is called once, in the order of the list, the first with
\* the tool response and each later one with the response produced by the
\* previous one (which, when the previous one returned None, is the response
\* it was passed).  It returns None exactly when the final response equals
\* the original tool response, and otherwise returns the final response.
C21_ComposedInSequence ==
    composition.status = "done" =>
        LET n == Len(composition.callbacks)
            res == composition.result
        IN  /\ Len(res.passed) = n
            /\ n > 0 => res.passed[1] = composition.tool_response
            /\ \A k \in 2..n : res.passed[k] = ResponseAfter(k - 1)
            /\ res.final = IF n = 0 THEN composition.tool_response
                                    ELSE ResponseAfter(n)
            /\ (res.returned = NoneOut) = (res.final = composition.tool_response)
            /\ res.returned # NoneOut => res.returned = res.final

\* the first of two callbacks replaces the response, the second is passed
\* the replacement and returns the original response: None is returned
C21_Witness ==
    /\ composition.status = "done"
    /\ Len(composition.callbacks) = 2
    /\ CallbackOut(1) \notin {NoneOut, composition.tool_response}
    /\ composition.result.passed[2] = CallbackOut(1)
    /\ CallbackOut(2) = composition.tool_response
    /\ composition.result.returned = NoneOut

\* the URLs of the results of a search response
ResultUrls(tool_response) ==
    IF "results" \in DOMAIN tool_response
    THEN {tool_response.results[k].url : k \in DOMAIN tool_response.results}
    ELSE {}

\* the searches of worker w with a non-empty query that returned url
SearchesReturning(w, url) ==
    {i \in DOMAIN alog :
        /\ alog[i].worker = w
        /\ alog[i].tool = "search_tool"
        /\ alog[i].args.query # EmptyQuery
        /\ url \in ResultUrls(alog[i].tool_response)}

LastOf(S) == CHOOSE i \in S : \A j \in S : j <= i

\* C22: after any sequence of search calls in a worker, the mapping of the
\* worker has URLs as keys and queries as values: a URL is a key exactly when
\* a search of the worker with a non-empty query returned it, and its value
\* is the query of the most recent such search; no step removes an entry;
\* and the storing callback returns None for every response, so the search
\* response is delivered unchanged.
C22_MappingIsLatestQuery ==
    /\ [](\A w \in Workers, url \in Urls :
            LET m == url_to_query_mapping[callback_cache_of(w)]
                S == SearchesReturning(w, url)
            IN  /\ DOMAIN m \subseteq Urls
                /\ (url \in DOMAIN m) = (S # {})
                /\ S # {} => m[url] = alog[LastOf(S)].args.query)
    /\ [](\A i \in DOMAIN alog :
            alog[i].tool = "search_tool" =>
                /\ alog[i].out.stored = NoResponse
                /\ alog[i].out.filter_passed = alog[i].tool_response
                /\ alog[i].out.returned = NoResponse)
    /\ [][\A c \in Workers :
            DOMAIN url_to_query_mapping[c] \subseteq DOMAIN url_to_query_mapping'[c]]_vars

\* two searches of one worker returned the same URL for different queries and
\* the mapping holds the query of the second, while another URL still maps to
\* the query of the first
C22_Witness ==
    \E w \in Workers :
        /\ Len(alog) = 2
        /\ SearchesReturning(w, "u1") = {1, 2}
        /\ SearchesReturning(w, "u2") = {1}
        /\ alog[1].args.query # alog[2].args.query
        /\ url_to_query_mapping[callback_cache_of(w)]["u1"] = alog[2].args.query
        /\ url_to_query_mapping[callback_cache_of(w)]["u2"] = alog[1].args.query

\* the response the worker's model receives after the after-tool callback
Delivered(a) == IF a.out.returned = NoResponse THEN a.tool_response ELSE a.out.returned

\* C23 (as stated): whenever a scrape has returned and the embedding service
\* answers, for each scraped URL with non-blank content the content delivered
\* for that URL is the chunks whose similarity to the URL's stored query is
\* >= the threshold, joined in their original order, or the original content
\* when the URL has no stored query or no chunk meets the threshold.
C23_AsStated ==
    \A i \in DOMAIN alog :
        (alog[i].tool = "scrape_tool" /\ alog[i].outcome = "ok") =>
            LET scraped == alog[i].tool_response.combined_content.items
                delivered == Delivered(alog[i]).combined_content.items
            IN  \A k \in DOMAIN scraped :
                    ~IsBlank(scraped[k].content) =>
                        \E j \in DOMAIN delivered :
                            /\ delivered[j].url = scraped[k].url
                            /\ delivered[j].content =
                                   filter_content(scraped[k].url, scraped[k].content,
                                                  alog[i].out.mapping, "ok")

\* C24 (as stated): chunk_text terminates for every text, chunk_size and
\* overlap, because the loop advances the start position towards the end of
\* the text: every iteration leaves start larger than it found it.
C24_AsStated ==
    [][(chunker.pc = "loop" /\ chunker'.pc = "loop") =>
           chunker'.start > chunker.start]_vars

====
